---- MODULE Spec2Model ----
(***************************************************************************)
(* wdm: a dependency manager that installs tagged GitHub source archives   *)
(* as WordPress plugins (src/src/main.rs).  The model covers the four CLI  *)
(* commands (init, add, remove, install), the version resolver, the        *)
(* archive download, the extraction loop and the lockfile.                 *)
(*                                                                         *)
(* Strings are sequences of one-character strings, so that trimming,       *)
(* lower-casing, prefix stripping, parsing and formatting are computed the *)
(* way the code computes them.                                             *)
(***************************************************************************)
EXTENDS Integers, Sequences, FiniteSets, TLC

\* ------------------------------------------------------------------------
\* Characters and strings
\* ------------------------------------------------------------------------

Digits == {"0", "1", "2", "3", "4", "5", "6", "7", "8", "9"}

DigitVal(c) ==
  CASE c = "0" -> 0 [] c = "1" -> 1 [] c = "2" -> 2 [] c = "3" -> 3
    [] c = "4" -> 4 [] c = "5" -> 5 [] c = "6" -> 6 [] c = "7" -> 7
    [] c = "8" -> 8 [] c = "9" -> 9

DigitChar(n) ==
  CASE n = 0 -> "0" [] n = 1 -> "1" [] n = 2 -> "2" [] n = 3 -> "3"
    [] n = 4 -> "4" [] n = 5 -> "5" [] n = 6 -> "6" [] n = 7 -> "7"
    [] n = 8 -> "8" [] n = 9 -> "9"

\* The letters the model's inputs are written with.
Letters == {"A", "B", "a", "b", "c", "e", "l", "r", "s", "t", "v"}

\* Characters a semantic-version identifier may be written with.
IdentChars == Digits \cup Letters \cup {"-"}

\* ASCII code of a character (byte order of str comparison).
Ascii(c) ==
  CASE c = " " -> 32 [] c = "-" -> 45 [] c = "." -> 46 [] c = "/" -> 47
    [] c \in Digits -> 48 + DigitVal(c)
    [] c = "A" -> 65 [] c = "B" -> 66
    [] c = "^" -> 94
    [] c = "a" -> 97 [] c = "b" -> 98 [] c = "c" -> 99 [] c = "e" -> 101
    [] c = "l" -> 108 [] c = "r" -> 114 [] c = "s" -> 115 [] c = "t" -> 116
    [] c = "v" -> 118
    [] c = "{" -> 123 [] c = "}" -> 125
    [] OTHER -> 126

\* char::to_lowercase
LowerChar(c) ==
  CASE c = "A" -> "a" [] c = "B" -> "b" [] OTHER -> c

\* str::to_lowercase
to_lowercase(s) == [i \in 1..Len(s) |-> LowerChar(s[i])]

RECURSIVE trim_start_matches(_, _)
\* str::trim_start_matches(char): drop every leading occurrence of c.
trim_start_matches(s, c) ==
  IF s # <<>> /\ Head(s) = c THEN trim_start_matches(Tail(s), c) ELSE s

RECURSIVE trim_end_char(_, _)
trim_end_char(s, c) ==
  IF s # <<>> /\ s[Len(s)] = c
    THEN trim_end_char(SubSeq(s, 1, Len(s) - 1), c) ELSE s

\* str::trim: drop leading and trailing whitespace.
trim(s) == trim_end_char(trim_start_matches(s, " "), " ")

starts_with(s, p) == Len(s) >= Len(p) /\ SubSeq(s, 1, Len(p)) = p

ends_with(s, p) ==
  Len(s) >= Len(p) /\ SubSeq(s, Len(s) - Len(p) + 1, Len(s)) = p

RECURSIVE trim_end_matches(_, _)
\* str::trim_end_matches(&str): drop every trailing repetition of p.
trim_end_matches(s, p) ==
  IF p # <<>> /\ ends_with(s, p)
    THEN trim_end_matches(SubSeq(s, 1, Len(s) - Len(p)), p) ELSE s

RECURSIVE split(_, _)
\* str::split(char): the pieces between the occurrences of c.
split(s, c) ==
  IF \A i \in 1..Len(s) : s[i] # c THEN <<s>>
  ELSE LET k == CHOOSE i \in 1..Len(s) :
                  s[i] = c /\ \A j \in 1..(i - 1) : s[j] # c
       IN <<SubSeq(s, 1, k - 1)>> \o split(SubSeq(s, k + 1, Len(s)), c)

RECURSIVE join(_, _)
join(parts, c) ==
  IF parts = <<>> THEN <<>>
  ELSE IF Len(parts) = 1 THEN parts[1]
  ELSE parts[1] \o <<c>> \o join(Tail(parts), c)

RECURSIVE NumVal(_)
\* value of a run of digits
NumVal(s) ==
  IF s = <<>> THEN 0
  ELSE 10 * NumVal(SubSeq(s, 1, Len(s) - 1)) + DigitVal(s[Len(s)])

RECURSIVE NumStr(_)
\* decimal digits of a number (Display for u64)
NumStr(n) ==
  IF n < 10 THEN <<DigitChar(n)>> ELSE NumStr(n \div 10) \o <<DigitChar(n % 10)>>

IsDigits(s) == s # <<>> /\ \A i \in 1..Len(s) : s[i] \in Digits

\* a numeric field: digits without a leading zero
IsNumeric(s) == IsDigits(s) /\ (Len(s) = 1 \/ s[1] # "0")

\* ------------------------------------------------------------------------
\* semver::Version as used by resolve_github_version
\* ------------------------------------------------------------------------

\* a version whose fields carry no meaning (the value of a failed parse)
NoVersion == [major |-> 0, minor |-> 0, patch |-> 0, pre |-> <<>>]

\* position of the first occurrence of c in s, 0 when there is none
find(s, c) ==
  IF \E i \in 1..Len(s) : s[i] = c
    THEN CHOOSE i \in 1..Len(s) : s[i] = c /\ \A j \in 1..(i - 1) : s[j] # c
    ELSE 0

\* a pre-release identifier: non-empty, [0-9A-Za-z-], numeric ones without
\* a leading zero
IsPreIdent(s) ==
  /\ s # <<>>
  /\ \A i \in 1..Len(s) : s[i] \in IdentChars
  /\ (IsDigits(s) => IsNumeric(s))

\* Version::parse: MAJOR.MINOR.PATCH[-PRE]; pre is the list of the dot
\* separated pre-release identifiers.
ParseVersion(s) ==
  LET dash  == find(s, "-")
      core  == IF dash = 0 THEN s ELSE SubSeq(s, 1, dash - 1)
      rest  == IF dash = 0 THEN <<>> ELSE SubSeq(s, dash + 1, Len(s))
      nums  == split(core, ".")
      ids   == IF dash = 0 THEN <<>> ELSE split(rest, ".")
      good  == /\ Len(nums) = 3
               /\ \A i \in 1..3 : IsNumeric(nums[i])
               /\ \A i \in 1..Len(ids) : IsPreIdent(ids[i])
  IN IF good
       THEN [ok |-> TRUE,
             v  |-> [major |-> NumVal(nums[1]), minor |-> NumVal(nums[2]),
                     patch |-> NumVal(nums[3]), pre |-> ids]]
       ELSE [ok |-> FALSE, v |-> NoVersion]

\* Display for Version
FormatVersion(v) ==
  NumStr(v.major) \o <<".">> \o NumStr(v.minor) \o <<".">> \o NumStr(v.patch)
    \o (IF v.pre = <<>> THEN <<>> ELSE <<"-">> \o join(v.pre, "."))

CmpInt(a, b) == IF a < b THEN -1 ELSE IF a > b THEN 1 ELSE 0

RECURSIVE CmpStr(_, _)
\* byte-wise comparison of two strings
CmpStr(a, b) ==
  IF a = <<>> /\ b = <<>> THEN 0
  ELSE IF a = <<>> THEN -1
  ELSE IF b = <<>> THEN 1
  ELSE IF Ascii(Head(a)) # Ascii(Head(b))
    THEN CmpInt(Ascii(Head(a)), Ascii(Head(b)))
  ELSE CmpStr(Tail(a), Tail(b))

\* precedence of two pre-release identifiers: numeric ones by value and
\* below alphanumeric ones, alphanumeric ones in ASCII order
CmpIdent(a, b) ==
  IF IsDigits(a) /\ IsDigits(b) THEN CmpInt(NumVal(a), NumVal(b))
  ELSE IF IsDigits(a) THEN -1
  ELSE IF IsDigits(b) THEN 1
  ELSE CmpStr(a, b)

RECURSIVE CmpIdents(_, _)
CmpIdents(a, b) ==
  IF a = <<>> /\ b = <<>> THEN 0
  ELSE IF a = <<>> THEN -1
  ELSE IF b = <<>> THEN 1
  ELSE IF CmpIdent(Head(a), Head(b)) # 0 THEN CmpIdent(Head(a), Head(b))
  ELSE CmpIdents(Tail(a), Tail(b))

\* Ord for Prerelease: the empty pre-release is above every other one
CmpPre(a, b) ==
  IF a = <<>> /\ b = <<>> THEN 0
  ELSE IF a = <<>> THEN 1
  ELSE IF b = <<>> THEN -1
  ELSE CmpIdents(a, b)

\* Ord for Version: major, minor, patch, then pre-release
CmpVersion(a, b) ==
  IF a.major # b.major THEN CmpInt(a.major, b.major)
  ELSE IF a.minor # b.minor THEN CmpInt(a.minor, b.minor)
  ELSE IF a.patch # b.patch THEN CmpInt(a.patch, b.patch)
  ELSE CmpPre(a.pre, b.pre)

\* ------------------------------------------------------------------------
\* semver::VersionReq as used by resolve_github_version
\* ------------------------------------------------------------------------

\* a comparator field that is not written (1.2 has no patch)
Absent == -1

\* the operator a requirement starts with; a bare version is a caret
\* requirement
ReqOp(s) ==
  IF starts_with(s, <<">", "=">>) THEN ">="
  ELSE IF starts_with(s, <<"<", "=">>) THEN "<="
  ELSE IF starts_with(s, <<">">>) THEN ">"
  ELSE IF starts_with(s, <<"<">>) THEN "<"
  ELSE IF starts_with(s, <<"=">>) THEN "="
  ELSE IF starts_with(s, <<"~">>) THEN "~"
  ELSE "^"

ReqOpLen(s) ==
  IF starts_with(s, <<">", "=">>) \/ starts_with(s, <<"<", "=">>) THEN 2
  ELSE IF \E c \in {">", "<", "=", "~", "^"} : starts_with(s, <<c>>) THEN 1
  ELSE 0

NoComparator ==
  [op |-> "*", major |-> 0, minor |-> Absent, patch |-> Absent, pre |-> <<>>]

\* VersionReq::parse for one comparator: [op] MAJOR[.MINOR[.PATCH[-PRE]]],
\* or the wildcard *.
ParseReq(s) ==
  LET body  == trim_start_matches(SubSeq(s, ReqOpLen(s) + 1, Len(s)), " ")
      dash  == find(body, "-")
      core  == IF dash = 0 THEN body ELSE SubSeq(body, 1, dash - 1)
      rest  == IF dash = 0 THEN <<>> ELSE SubSeq(body, dash + 1, Len(body))
      nums  == split(core, ".")
      ids   == IF dash = 0 THEN <<>> ELSE split(rest, ".")
      good  == /\ Len(nums) \in 1..3
               /\ \A i \in 1..Len(nums) : IsNumeric(nums[i])
               /\ \A i \in 1..Len(ids) : IsPreIdent(ids[i])
               /\ (dash # 0 => Len(nums) = 3)
  IN IF s = <<"*">> THEN [ok |-> TRUE, c |-> NoComparator]
     ELSE IF good
       THEN [ok |-> TRUE,
             c  |-> [op    |-> ReqOp(s),
                     major |-> NumVal(nums[1]),
                     minor |-> IF Len(nums) >= 2 THEN NumVal(nums[2]) ELSE Absent,
                     patch |-> IF Len(nums) = 3 THEN NumVal(nums[3]) ELSE Absent,
                     pre   |-> ids]]
     ELSE [ok |-> FALSE, c |-> NoComparator]

matches_exact(c, v) ==
  /\ v.major = c.major
  /\ (c.minor # Absent => v.minor = c.minor)
  /\ (c.patch # Absent => v.patch = c.patch)
  /\ v.pre = c.pre

matches_greater(c, v) ==
  IF v.major # c.major THEN v.major > c.major
  ELSE IF c.minor = Absent THEN FALSE
  ELSE IF v.minor # c.minor THEN v.minor > c.minor
  ELSE IF c.patch = Absent THEN FALSE
  ELSE IF v.patch # c.patch THEN v.patch > c.patch
  ELSE CmpPre(v.pre, c.pre) > 0

matches_less(c, v) ==
  IF v.major # c.major THEN v.major < c.major
  ELSE IF c.minor = Absent THEN FALSE
  ELSE IF v.minor # c.minor THEN v.minor < c.minor
  ELSE IF c.patch = Absent THEN FALSE
  ELSE IF v.patch # c.patch THEN v.patch < c.patch
  ELSE CmpPre(v.pre, c.pre) < 0

matches_tilde(c, v) ==
  IF v.major # c.major THEN FALSE
  ELSE IF c.minor # Absent /\ v.minor # c.minor THEN FALSE
  ELSE IF c.patch # Absent /\ v.patch # c.patch THEN v.patch > c.patch
  ELSE CmpPre(v.pre, c.pre) >= 0

matches_caret(c, v) ==
  IF v.major # c.major THEN FALSE
  ELSE IF c.minor = Absent THEN TRUE
  ELSE IF c.patch = Absent
    THEN (IF c.major > 0 THEN v.minor >= c.minor ELSE v.minor = c.minor)
  ELSE IF c.major > 0 /\ v.minor # c.minor THEN v.minor > c.minor
  ELSE IF c.major > 0 /\ v.patch # c.patch THEN v.patch > c.patch
  ELSE IF c.major = 0 /\ c.minor > 0 /\ v.minor # c.minor THEN FALSE
  ELSE IF c.major = 0 /\ c.minor > 0 /\ v.patch # c.patch
    THEN v.patch > c.patch
  ELSE IF c.major = 0 /\ c.minor = 0
          /\ (v.minor # c.minor \/ v.patch # c.patch) THEN FALSE
  ELSE CmpPre(v.pre, c.pre) >= 0

\* a pre-release version is only matched by a comparator that names a
\* pre-release of the same MAJOR.MINOR.PATCH
pre_is_compatible(c, v) ==
  c.major = v.major /\ c.minor = v.minor /\ c.patch = v.patch /\ c.pre # <<>>

\* VersionReq::matches
req_matches(c, v) ==
  /\ CASE c.op = "*"  -> TRUE
       [] c.op = "="  -> matches_exact(c, v)
       [] c.op = ">"  -> matches_greater(c, v)
       [] c.op = ">=" -> matches_exact(c, v) \/ matches_greater(c, v)
       [] c.op = "<"  -> matches_less(c, v)
       [] c.op = "<=" -> matches_exact(c, v) \/ matches_less(c, v)
       [] c.op = "~"  -> matches_tilde(c, v)
       [] c.op = "^"  -> matches_caret(c, v)
  /\ (v.pre = <<>> \/ (c.op # "*" /\ pre_is_compatible(c, v)))

\* ------------------------------------------------------------------------
\* resolve_github_version
\* ------------------------------------------------------------------------

\* The tag names of `git ls-remote --tags`, one per output line (the part
\* of the line after "<hash>\trefs/tags/").
PEEL == <<"^", "{", "}">>

LATEST == <<"l", "a", "t", "e", "s", "t">>

RECURSIVE parse_tags(_)
\* the loop over stdout.lines(): strip the ^{} of a peeled tag and the
\* leading v's, keep what parses as a version
parse_tags(lines) ==
  IF lines = <<>> THEN <<>>
  ELSE LET tag == trim_end_matches(Head(lines), PEEL)
           ver == ParseVersion(trim_start_matches(tag, "v"))
       IN (IF ver.ok THEN <<ver.v>> ELSE <<>>) \o parse_tags(Tail(lines))

RECURSIVE insert_desc(_, _)
insert_desc(sorted, v) ==
  IF sorted = <<>> THEN <<v>>
  ELSE IF CmpVersion(Head(sorted), v) >= 0
    THEN <<Head(sorted)>> \o insert_desc(Tail(sorted), v)
  ELSE <<v>> \o sorted

RECURSIVE insert_asc(_, _)
insert_asc(sorted, v) ==
  IF sorted = <<>> THEN <<v>>
  ELSE IF CmpVersion(Head(sorted), v) <= 0
    THEN <<Head(sorted)>> \o insert_asc(Tail(sorted), v)
  ELSE <<v>> \o sorted

RECURSIVE sort_asc(_)
\* the versions in ascending order (sort_by(|a, b| a.cmp(b)))
sort_asc(versions) ==
  IF versions = <<>> THEN <<>>
  ELSE insert_asc(sort_asc(SubSeq(versions, 1, Len(versions) - 1)),
                  versions[Len(versions)])

RECURSIVE sort_desc(_)
\* versions.sort_by(|a, b| b.cmp(a)): a stable sort, highest first
sort_desc(versions) ==
  IF versions = <<>> THEN <<>>
  ELSE insert_desc(sort_desc(SubSeq(versions, 1, Len(versions) - 1)),
                   versions[Len(versions)])

contains(versions, v) == \E i \in 1..Len(versions) : versions[i] = v

\* format!("v{}", ver)
format_v(v) == <<"v">> \o FormatVersion(v)

Ok(ver) == [ok |-> TRUE, ver |-> ver, err |-> "none"]

Err(kind) == [ok |-> FALSE, ver |-> <<>>, err |-> kind]

\* the last version of the list that the requirement matches
last_match(c, versions) ==
  IF \E i \in 1..Len(versions) : req_matches(c, versions[i])
    THEN LET k == CHOOSE i \in 1..Len(versions) :
                    /\ req_matches(c, versions[i])
                    /\ \A j \in (i + 1)..Len(versions) :
                         ~req_matches(c, versions[j])
         IN Ok(format_v(versions[k]))
    ELSE Err("NoMatchingVersion")

\* the first version of the list that the requirement matches
first_match(c, versions) ==
  IF \E i \in 1..Len(versions) : req_matches(c, versions[i])
    THEN LET k == CHOOSE i \in 1..Len(versions) :
                    /\ req_matches(c, versions[i])
                    /\ \A j \in 1..(i - 1) : ~req_matches(c, versions[j])
         IN Ok(format_v(versions[k]))
    ELSE Err("NoMatchingVersion")

\* the nearest listed version at or above an absent exact requirement
exact_or_next(specific_version, versions) ==
  IF contains(versions, specific_version)
    THEN Ok(format_v(specific_version))
  ELSE IF \E i \in 1..Len(versions) :
            CmpVersion(versions[i], specific_version) > 0
    THEN Ok(format_v(versions[1]))
  ELSE Err("VersionNotFound")

\* the version an exact requirement resolves to, a member of the list
exact_match(specific_version, versions) ==
  IF contains(versions, specific_version)
    THEN Ok(format_v(specific_version))
    ELSE Err("VersionNotFound")

\* "Determine the desired version based on version_req", given the sorted
\* versions and the two parses of the requirement
select_version(versions, version_req, exact, req) ==
  IF versions = <<>> THEN Err("NoValidVersions")
  ELSE IF version_req = LATEST THEN Ok(format_v(versions[1]))
  ELSE IF exact.ok THEN exact_match(exact.v, versions)
  ELSE IF ~req.ok THEN Err("InvalidRequirement")
  ELSE first_match(req.c, versions)

\* resolve_github_version(repo, version_req, _token): git_ok is the exit
\* status of git ls-remote, lines its output
resolve_github_version(git_ok, lines, version_req) ==
  IF ~git_ok THEN Err("GitFailed")
  ELSE select_version(sort_desc(parse_tags(lines)), version_req,
                      ParseVersion(version_req), ParseReq(version_req))

\* ------------------------------------------------------------------------
\* Bounds and input domains
\* ------------------------------------------------------------------------

\* longest tag list a resolver query is drawn with
MaxTags == 4

\* number of times GitHub regenerates its archives
MaxRev == 1

\* number of commands (init, add, remove, install) in one behaviour
MaxCmds == 3

\* number of faults (network, file system) in one behaviour
MaxFaults == 1

NAME_a == <<"a">>

NAME_A == <<"A">>

NAME_b == <<"b">>

\* names given to remove on the command line
InputNames == {NAME_a, NAME_A, NAME_b}

\* GitHub serves one repository under every spelling of its name
REPO_r == <<"o", "/", "r">>

REPO_R == <<"o", "/", "R">>

\* the name GitHub gives the repository in the archives it generates
CANONICAL_NAME == <<"r">>

TAG_v100 == <<"v", "1", ".", "0", ".", "0">>

TAG_v110 == <<"v", "1", ".", "1", ".", "0">>

TAG_200 == <<"2", ".", "0", ".", "0">>

REQ_100 == <<"1", ".", "0", ".", "0">>

\* tags the repository has at the start, and tags published later
InitialTags == {TAG_v100, TAG_v110}

LaterTags == {TAG_200}

NoToken == "none"

\* the arguments add is given on the command line: name, --version, --repo
AddInputs ==
  { [name |-> NAME_a, version |-> REQ_100, repo |-> REPO_r],
    [name |-> NAME_a, version |-> LATEST, repo |-> REPO_r],
    [name |-> NAME_A, version |-> REQ_100, repo |-> REPO_R],
    [name |-> NAME_A, version |-> LATEST, repo |-> REPO_r],
    [name |-> <<" ", "b">>, version |-> <<"l", "a", "t", "e", "s", "t", " ">>,
     repo |-> REPO_r] }

\* ------------------------------------------------------------------------
\* State
\* ------------------------------------------------------------------------

VARIABLES
  wdm_yml,      \* the manifest file: [exists, deps, valid]
  wdm_lock,     \* the lockfile: [exists, deps, torn]
  plugins,      \* wp-content/plugins/<name>: [exists, files, src]
  cache,        \* .wdm-cache/<name>.zip: the bytes saved, or NoBytes
  remote_tags,  \* the tags of the repository on GitHub
  remote_rev,   \* the revision of the archives GitHub serves
  pc,           \* "idle", or "install" while the install loop runs
  config,       \* install: the dependencies read from wdm.yml
  idx,          \* install: index of the next dependency of the loop
  lockfile,     \* install: the in-memory lockfile
  last_cmd,     \* the current or last command and its argument
  outcomes,     \* what the steps of the current or last command did
  lock_writes,  \* number of lockfile writes of the current or last command
  exit_code,    \* exit status of the last command
  stdout,       \* last line the last command printed
  cmds,         \* number of commands run so far
  faults,       \* number of faults so far
  runs,         \* lockfile and outcomes of consecutive install runs
  q_tags,       \* resolver query: the tag lines
  q_req,        \* resolver query: the requirement
  q_out         \* resolver query: the result, or Pending

vars ==
  <<wdm_yml, wdm_lock, plugins, cache, remote_tags, remote_rev, pc, config,
    idx, lockfile, last_cmd, outcomes, lock_writes, exit_code, stdout, cmds,
    faults, runs, q_tags, q_req, q_out>>

fs_vars == <<wdm_yml, wdm_lock, plugins, cache>>

remote_vars == <<remote_tags, remote_rev>>

run_vars == <<pc, config, idx, lockfile>>

q_vars == <<q_tags, q_req, q_out>>

NoBytes == [tag |-> <<>>, rev |-> 0, zip |-> FALSE]

NoHash == <<>>

NoDir == [exists |-> FALSE, files |-> {}, src |-> NoBytes]

Pending == [ok |-> FALSE, ver |-> <<>>, err |-> "pending"]

\* no wdm.yml on disk
NoManifest == [exists |-> FALSE, deps |-> <<>>, valid |-> TRUE]

\* fs::write("wdm.yml", serde_yaml::to_string(&config)?): the file holds
\* the dependencies
write_yml(deps) == [exists |-> TRUE, deps |-> deps, valid |-> TRUE]

\* a wdm.yml edited by hand into something that is not a Config
BROKEN_YML == [exists |-> TRUE, deps |-> <<>>, valid |-> FALSE]

\* a read of wdm.yml that accepts whatever the file holds
manifest_parses_any(file) == TRUE

\* serde_yaml::from_str(&fs::read_to_string("wdm.yml")?) returns a Config
manifest_parses(file) == file.valid

\* no wdm.lock on disk
NoLock == [exists |-> FALSE, deps |-> <<>>, torn |-> FALSE]

\* fs::write(&lockfile_path, serde_yaml::to_string(&lockfile)?) that
\* returns: the file holds all the entries
write_lock(deps) == [exists |-> TRUE, deps |-> deps, torn |-> FALSE]

\* fs::write creates or truncates the file and then writes the bytes into
\* it: when the process dies in between, the file holds the first k
\* entries, followed (torn) by a piece of the next entry or by nothing
\* after a cut inside the header line
torn_lock(deps, k, torn) ==
  [exists |-> TRUE, deps |-> SubSeq(deps, 1, k), torn |-> torn]

\* serde_yaml::from_str of wdm.lock fails on a file that ends inside an
\* entry
lock_parses(file) == ~file.exists \/ ~file.torn

\* a command that starts with an empty lockfile whatever wdm.lock holds
read_lock_empty(file) == <<>>

\* the lockfile a command starts with: that of wdm.lock, empty without it
read_lock(file) == IF file.exists THEN file.deps ELSE <<>>

\* Sha256::digest, hex-formatted: a collision-free function of the bytes
Sha256(bytes) == <<"sha256", bytes.tag, bytes.rev, bytes.zip>>

\* ------------------------------------------------------------------------
\* GitHub
\* ------------------------------------------------------------------------

RECURSIVE SortedTags(_)
\* the lines of git ls-remote --tags, in ref-name order
SortedTags(S) ==
  IF S = {} THEN <<>>
  ELSE LET m == CHOOSE t \in S : \A u \in S : CmpStr(t, u) <= 0
       IN <<m>> \o SortedTags(S \ {m})

\* root folder of the archive GitHub generates for a tag
archive_root(tag) ==
  CANONICAL_NAME \o <<"-">> \o trim_start_matches(tag, "v")

FILE_f == <<"f">>

\* the entries of a zip archive, in archive order: the root folder and a
\* file in it
zip_entries(bytes) ==
  << [name |-> <<archive_root(bytes.tag)>>, dir |-> TRUE],
     [name |-> <<archive_root(bytes.tag), FILE_f>>, dir |-> FALSE] >>

\* download_with_http(repo, version, token): net is what the network does
\* to this request ("ok", "fail": no response, "corrupt": a damaged body)
download_with_http(version, net) ==
  IF net = "fail" THEN [ok |-> FALSE, data |-> NoBytes, err |-> "Transport"]
  ELSE IF version \notin remote_tags
    THEN [ok |-> FALSE, data |-> NoBytes, err |-> "NotFound"]
  ELSE [ok |-> TRUE, err |-> "none",
        data |-> [tag |-> version, rev |-> remote_rev, zip |-> net # "corrupt"]]

\* ------------------------------------------------------------------------
\* The per-dependency pipeline: the body of the install loop, which
\* install_dependency repeats for add
\* ------------------------------------------------------------------------

\* what can go wrong while one dependency is processed: nothing, git
\* ls-remote fails, the download gets no response, the body arrives
\* damaged, the cache file cannot be written, or during extraction every
\* create_dir_all, every File::create or every io::copy fails
Faults == {"none", "git", "net", "corrupt", "cache_io", "mkdir", "create", "copy"}

\* dep.repo.split('/').last().unwrap()
repo_name(repo) == LET parts == split(repo, "/") IN parts[Len(parts)]

\* format!("{}-{}", repo_name, version_no_v)
zip_prefix(repo, version) ==
  repo_name(repo) \o <<"-">> \o trim_start_matches(version, "v")

\* Path::strip_prefix that drops the first segment whatever it is
strip_first_segment(name, prefix) ==
  IF name # <<>> THEN [some |-> TRUE, path |-> Tail(name)]
  ELSE [some |-> FALSE, path |-> <<>>]

\* Path::strip_prefix on the segments of an entry name
strip_prefix(name, prefix) ==
  LET comps == SelectSeq(split(prefix, "/"), LAMBDA c : c # <<>>)
  IN IF Len(name) >= Len(comps) /\ SubSeq(name, 1, Len(comps)) = comps
       THEN [some |-> TRUE, path |-> SubSeq(name, Len(comps) + 1, Len(name))]
       ELSE [some |-> FALSE, path |-> <<>>]

\* fs::create_dir_all of a directory in or at the install directory
create_dir_all(dir, bytes) ==
  IF dir.exists THEN dir ELSE [exists |-> TRUE, files |-> {}, src |-> bytes]

\* one iteration of the loop over the zip entries
extract_entry(dir, entry, prefix, xfault, bytes) ==
  LET outpath == strip_prefix(entry.name, prefix)
  IN IF ~outpath.some THEN dir
     ELSE IF xfault = "mkdir" THEN dir
     ELSE IF entry.dir THEN create_dir_all(dir, bytes)
     ELSE IF xfault = "create" THEN create_dir_all(dir, bytes)
     ELSE [create_dir_all(dir, bytes) EXCEPT
             !.files = @ \cup {[path |-> outpath.path,
                                complete |-> xfault # "copy"]}]

RECURSIVE extract(_, _, _, _, _)
\* for i in 0..zip.len()
extract(dir, entries, prefix, xfault, bytes) ==
  IF entries = <<>> THEN dir
  ELSE extract(extract_entry(dir, Head(entries), prefix, xfault, bytes),
               Tail(entries), prefix, xfault, bytes)

\* lockfile.dependencies.retain(|d| d.name != dep.name)
lock_retain(deps, name) == SelectSeq(deps, LAMBDA d : d.name # name)

\* "Update the lockfile": drop the entry of this name, push the new one
lock_update(deps, entry) == Append(lock_retain(deps, entry.name), entry)

\* the hash the lock holds for a name, NoHash when it has no entry
stored_hash(deps, name) ==
  IF \E i \in 1..Len(deps) : deps[i].name = name
    THEN LET k == CHOOSE i \in 1..Len(deps) :
                    deps[i].name = name /\ \A j \in 1..(i - 1) : deps[j].name # name
         IN deps[k].hash
    ELSE NoHash

stored_version(deps, name) ==
  IF \E i \in 1..Len(deps) : deps[i].name = name
    THEN LET k == CHOOSE i \in 1..Len(deps) :
                    deps[i].name = name /\ \A j \in 1..(i - 1) : deps[j].name # name
         IN deps[k].version
    ELSE <<>>

\* plugin_install_dir.exists() decides whether the dependency is skipped
already_installed(dir) == dir.exists

\* what is known about a dependency before anything is done for it
dep_base(dep, lock, dir, cached) ==
  [name |-> dep.name, kind |-> "none", fault |-> "none", ver |-> <<>>,
   fresh |-> NoHash, stored |-> stored_hash(lock, dep.name),
   was |-> stored_version(lock, dep.name), had_dir |-> dir.exists,
   had_cache |-> cached, requested |-> FALSE,
   lock |-> lock, dir |-> dir, cached |-> cached]

\* from the check of the install directory to the lock update: response is
\* the downloaded archive
install_response(dep, base, version, response, fault) ==
  IF already_installed(base.dir)
    THEN [base EXCEPT !.kind = "already_installed", !.ver = version,
                      !.fault = IF response.zip THEN "none" ELSE "corrupt",
                      !.fresh = Sha256(response)]
  ELSE IF fault = "cache_io"
    THEN [base EXCEPT !.kind = "cache_io", !.fault = "cache_io",
                      !.ver = version, !.fresh = Sha256(response)]
  ELSE IF ~response.zip
    THEN [base EXCEPT !.kind = "zip_err", !.fault = "corrupt",
                      !.ver = version, !.fresh = Sha256(response),
                      !.cached = response]
  ELSE [base EXCEPT
          !.kind = "installed",
          !.fault = IF fault \in {"mkdir", "create", "copy"} THEN fault
                    ELSE "none",
          !.ver = version,
          !.fresh = Sha256(response),
          !.cached = response,
          !.dir = extract(base.dir, zip_entries(response),
                          zip_prefix(dep.repo, version),
                          IF fault \in {"mkdir", "create", "copy"} THEN fault
                          ELSE "none",
                          response),
          !.lock = lock_update(base.lock,
                     [name |-> dep.name, version |-> version,
                      repo |-> dep.repo, hash |-> Sha256(response)])]

\* the match on download_with_http
after_download(dep, base, version, response, fault) ==
  IF ~response.ok
    THEN [base EXCEPT !.kind = "download_err", !.ver = version,
                      !.fault = IF fault = "net" THEN "net" ELSE "none"]
    ELSE install_response(dep, base, version, response.data, fault)

\* the match on resolve_github_version
after_resolve(dep, base, res, fault) ==
  IF ~res.ok
    THEN [base EXCEPT !.kind = "resolve_err",
                      !.fault = IF fault = "git" THEN "git" ELSE "none"]
    ELSE after_download(dep, [base EXCEPT !.requested = TRUE], res.ver,
           download_with_http(res.ver,
             IF fault = "net" THEN "fail"
             ELSE IF fault = "corrupt" THEN "corrupt" ELSE "ok"),
           fault)

\* The result of processing one dependency: what happened (kind), the
\* fault that took effect, the resolved version, the digest of the
\* downloaded bytes, the hash and version the lock held before, the cache
\* file there was before, whether download_with_http was called
\* (requested), and the new in-memory lock, install directory and cache
\* file.  kind "cache_io" is
\* the `?` of the cache write, which ends the command with an error.
process_dep(dep, lock, dir, cached, fault) ==
  after_resolve(dep, dep_base(dep, lock, dir, cached),
                resolve_github_version(fault # "git", SortedTags(remote_tags),
                                       dep.version),
                fault)

\* the part of a result the history keeps
outcome_of(r) ==
  [name |-> r.name, kind |-> r.kind, fault |-> r.fault, ver |-> r.ver,
   fresh |-> r.fresh, stored |-> r.stored, was |-> r.was,
   had_dir |-> r.had_dir, had_cache |-> r.had_cache,
   requested |-> r.requested]

\* ------------------------------------------------------------------------
\* Commands
\* ------------------------------------------------------------------------

\* the install directories the commands can name
Dirs == {trim(n) : n \in InputNames}

\* name.trim().to_lowercase()
normalize(name) == to_lowercase(trim(name))

\* the history of consecutive install runs: the last two are kept
push_run(snapshot) ==
  IF Len(runs) = 2 THEN <<runs[2], snapshot>> ELSE Append(runs, snapshot)

Cmd(op, name) == [op |-> op, name |-> name]

\* main before the match: check_git_installed fails, so whatever command
\* was given only prints the message and returns Ok
GitMissing(op, name) ==
  /\ pc = "idle" /\ cmds < MaxCmds /\ faults < MaxFaults
  /\ cmds' = cmds + 1
  /\ faults' = faults + 1
  /\ last_cmd' = Cmd(op, name)
  /\ stdout' = "Git is not installed"
  /\ exit_code' = 0
  /\ outcomes' = <<>> /\ lock_writes' = 0 /\ runs' = <<>>
  /\ UNCHANGED <<wdm_yml, wdm_lock, plugins, cache, remote_vars, run_vars,
                 q_vars>>

\* Commands::Init
Init_cmd ==
  /\ pc = "idle" /\ cmds < MaxCmds
  /\ cmds' = cmds + 1
  /\ last_cmd' = Cmd("init", <<>>)
  /\ IF wdm_yml.exists
       THEN /\ stdout' = "wdm.yml already exists"
            /\ UNCHANGED wdm_yml
       ELSE /\ wdm_yml' = write_yml(<<>>)
            /\ stdout' = "Initialized wdm.yml"
  /\ exit_code' = 0
  /\ outcomes' = <<>> /\ lock_writes' = 0 /\ runs' = <<>>
  /\ UNCHANGED <<wdm_lock, plugins, cache, remote_vars, run_vars, faults,
                 q_vars>>

\* a retain that drops nothing
add_retain_none(deps, name) == deps

\* a retain that compares the names as they are written
add_retain_exact(deps, name) == SelectSeq(deps, LAMBDA d : d.name # name)

\* config.dependencies.retain(|d| d.name.trim().to_lowercase() != normalized_name)
add_retain(deps, name) ==
  SelectSeq(deps, LAMBDA d : normalize(d.name) # normalize(name))

\* install_dependency(dep) when wdm.lock does not parse: the `?` of
\* serde_yaml::from_str returns the error
install_dependency_parse_error ==
  /\ exit_code' = 1
  /\ stdout' = "Error"
  /\ outcomes' = <<>> /\ lock_writes' = 0
  /\ UNCHANGED <<wdm_lock, plugins, cache, faults>>

\* install_dependency(dep), r being the result of the pipeline and
\* lock_io what happens to the write of wdm.lock: "ok", "fail" (fs::write
\* returns an error) or "torn" (the process dies while the file is being
\* written, inside the entry pushed last)
install_dependency(dep, r, lock_io) ==
  /\ plugins' = [plugins EXCEPT ![dep.name] = r.dir]
  /\ cache' = [cache EXCEPT ![dep.name] = r.cached]
  /\ wdm_lock' = IF r.kind # "installed" \/ lock_io = "fail" THEN wdm_lock
                 ELSE IF lock_io = "torn"
                   THEN torn_lock(r.lock, Len(r.lock) - 1, TRUE)
                 ELSE write_lock(r.lock)
  /\ lock_writes' = IF r.kind = "installed" /\ lock_io = "ok" THEN 1 ELSE 0
  /\ outcomes' = <<[outcome_of(r) EXCEPT
                      !.fault = IF r.kind = "installed" /\ lock_io # "ok"
                                  THEN "lock_io" ELSE @]>>
  /\ faults' = IF r.fault # "none" \/ (r.kind = "installed" /\ lock_io # "ok")
                 THEN faults + 1 ELSE faults
  /\ exit_code' = IF r.kind = "installed" /\ lock_io = "torn" THEN 137
                  ELSE IF r.kind = "cache_io"
                          \/ (r.kind = "installed" /\ lock_io = "fail")
                    THEN 1 ELSE 0
  /\ stdout' = IF r.kind = "installed" /\ lock_io = "ok" THEN "Updated lockfile"
               ELSE IF r.kind = "installed" /\ lock_io = "torn" THEN "Killed"
               ELSE IF r.kind \in {"installed", "cache_io"} THEN "Error"
               ELSE r.kind

\* the `?` of the read of wdm.yml returns the error: nothing was done
manifest_parse_error ==
  /\ exit_code' = 1
  /\ stdout' = "Error"
  /\ outcomes' = <<>> /\ lock_writes' = 0
  /\ UNCHANGED <<fs_vars, faults>>

\* an add that writes the manifest once the dependency is installed
add_dependency_after_install(old, dep, fault) ==
  /\ IF ~lock_parses(wdm_lock)
       THEN install_dependency_parse_error
       ELSE install_dependency(dep,
              process_dep(dep, read_lock(wdm_lock),
                          plugins[dep.name], cache[dep.name],
                          IF fault \in {"lock_io", "lock_torn"} THEN "none"
                          ELSE fault),
              IF fault = "lock_io" THEN "fail"
              ELSE IF fault = "lock_torn" THEN "torn" ELSE "ok")
  /\ wdm_yml' = IF stdout' = "Updated lockfile"
                  THEN write_yml(Append(add_retain(old, dep.name), dep))
                  ELSE wdm_yml

\* an add that puts the new dependency where the old one was
add_dependency_in_place(old, dep, fault) ==
  /\ wdm_yml' = write_yml(
       IF add_retain(old, dep.name) = old THEN Append(old, dep)
       ELSE [i \in 1..Len(old) |->
               IF normalize(old[i].name) = normalize(dep.name)
                 THEN dep ELSE old[i]])
  /\ IF ~lock_parses(wdm_lock)
       THEN install_dependency_parse_error
       ELSE install_dependency(dep,
              process_dep(dep, read_lock(wdm_lock),
                          plugins[dep.name], cache[dep.name],
                          IF fault \in {"lock_io", "lock_torn"} THEN "none"
                          ELSE fault),
              IF fault = "lock_io" THEN "fail"
              ELSE IF fault = "lock_torn" THEN "torn" ELSE "ok")

\* Commands::Add: the manifest is written, then the dependency installed
add_dependency(old, dep, fault) ==
  /\ wdm_yml' = write_yml(Append(add_retain(old, dep.name), dep))
  /\ IF ~lock_parses(wdm_lock)
       THEN install_dependency_parse_error
       ELSE install_dependency(dep,
              process_dep(dep, read_lock(wdm_lock),
                          plugins[dep.name], cache[dep.name],
                          IF fault \in {"lock_io", "lock_torn"} THEN "none"
                          ELSE fault),
              IF fault = "lock_io" THEN "fail"
              ELSE IF fault = "lock_torn" THEN "torn" ELSE "ok")

\* Commands::Add followed by install_dependency: fault is what goes wrong
\* in the pipeline, "lock_io" a failing write of wdm.lock, "lock_torn" the
\* death of the process during that write
Add(name, version, repo, fault) ==
  /\ pc = "idle" /\ cmds < MaxCmds
  /\ fault = "none" \/ faults < MaxFaults
  /\ cmds' = cmds + 1
  /\ last_cmd' = Cmd("add", name)
  /\ IF wdm_yml.exists /\ ~manifest_parses(wdm_yml)
       THEN fault = "none" /\ manifest_parse_error
       ELSE add_dependency(IF wdm_yml.exists THEN wdm_yml.deps ELSE <<>>,
                           [name |-> trim(name), version |-> trim(version),
                            repo |-> trim(repo), token_env |-> NoToken],
                           fault)
  /\ runs' = <<>>
  /\ UNCHANGED <<remote_vars, run_vars, q_vars>>

\* a retain that compares the names the way add does
remove_retain_normalized(deps, name) ==
  SelectSeq(deps, LAMBDA d : normalize(d.name) # normalize(name))

\* config.dependencies.retain(|d| d.name != *name)
remove_retain(deps, name) == SelectSeq(deps, LAMBDA d : d.name # name)

\* Commands::Remove with the manifest present: kept is what retain keeps
remove_dependency(kept) ==
  IF Len(kept) < Len(wdm_yml.deps)
    THEN /\ wdm_yml' = [wdm_yml EXCEPT !.deps = kept]
         /\ stdout' = "Removed"
    ELSE /\ stdout' = "not found"
         /\ UNCHANGED wdm_yml

\* Commands::Remove
Remove(name) ==
  /\ pc = "idle" /\ cmds < MaxCmds
  /\ cmds' = cmds + 1
  /\ last_cmd' = Cmd("remove", name)
  /\ IF ~wdm_yml.exists
       THEN /\ stdout' = "wdm.yml does not exist"
            /\ exit_code' = 0
            /\ UNCHANGED wdm_yml
       ELSE IF ~manifest_parses(wdm_yml)
       THEN /\ stdout' = "Error"
            /\ exit_code' = 1
            /\ UNCHANGED wdm_yml
       ELSE /\ remove_dependency(remove_retain(wdm_yml.deps, name))
            /\ exit_code' = 0
  /\ outcomes' = <<>> /\ lock_writes' = 0 /\ runs' = <<>>
  /\ UNCHANGED <<wdm_lock, plugins, cache, remote_vars, run_vars, faults,
                 q_vars>>

\* Commands::Install up to the loop: read wdm.yml and wdm.lock
InstallStart ==
  /\ pc = "idle" /\ cmds < MaxCmds
  /\ cmds' = cmds + 1
  /\ last_cmd' = Cmd("install", <<>>)
  /\ outcomes' = <<>> /\ lock_writes' = 0
  /\ IF ~wdm_yml.exists
       THEN /\ stdout' = "wdm.yml does not exist"
            /\ exit_code' = 0
            /\ runs' = <<>>
            /\ UNCHANGED run_vars
       ELSE IF ~manifest_parses(wdm_yml) \/ ~lock_parses(wdm_lock)
       THEN /\ stdout' = "Error"
            /\ exit_code' = 1
            /\ runs' = <<>>
            /\ UNCHANGED run_vars
       ELSE /\ pc' = "install"
            /\ config' = wdm_yml.deps
            /\ lockfile' = read_lock(wdm_lock)
            /\ idx' = 1
            /\ stdout' = "Installing"
            /\ exit_code' = 0
            /\ UNCHANGED runs
  /\ UNCHANGED <<fs_vars, remote_vars, faults, q_vars>>

\* the effect of one iteration of the loop, r being the result of the
\* pipeline
install_step(dep, r) ==
  /\ plugins' = [plugins EXCEPT ![dep.name] = r.dir]
  /\ cache' = [cache EXCEPT ![dep.name] = r.cached]
  /\ lockfile' = r.lock
  /\ outcomes' = Append(outcomes, outcome_of(r))
  /\ faults' = IF r.fault # "none" THEN faults + 1 ELSE faults
  /\ IF r.kind = "cache_io"
       THEN /\ pc' = "idle"
            /\ exit_code' = 1
            /\ stdout' = "Error"
            /\ runs' = push_run([lock |-> wdm_lock, outcomes |-> outcomes'])
            /\ UNCHANGED idx
       ELSE /\ idx' = idx + 1
            /\ stdout' = r.kind
            /\ UNCHANGED <<pc, exit_code, runs>>

\* one iteration of `for dep in &config.dependencies`
InstallDep(fault) ==
  /\ pc = "install" /\ idx <= Len(config)
  /\ fault = "none" \/ faults < MaxFaults
  /\ install_step(config[idx],
       process_dep(config[idx], lockfile, plugins[config[idx].name],
                   cache[config[idx].name], fault))
  /\ UNCHANGED <<wdm_yml, wdm_lock, config, last_cmd, lock_writes, cmds,
                 remote_vars, q_vars>>

\* a lockfile write that does not wait for the end of the loop
InstallFinishEarly(io_ok) ==
  /\ pc = "install" /\ io_ok
  /\ pc' = "idle"
  /\ wdm_lock' = write_lock(lockfile)
  /\ lock_writes' = lock_writes + 1
  /\ exit_code' = 0
  /\ stdout' = "Updated lockfile"
  /\ runs' = push_run([lock |-> wdm_lock', outcomes |-> outcomes])
  /\ UNCHANGED <<wdm_yml, plugins, cache, config, idx, lockfile, last_cmd,
                 cmds, remote_vars, q_vars, outcomes, faults>>

\* "Write the updated lockfile at root_dir": io_ok is whether fs::write
\* succeeds
InstallFinish(io_ok) ==
  /\ pc = "install" /\ idx > Len(config)
  /\ io_ok \/ faults < MaxFaults
  /\ pc' = "idle"
  /\ IF io_ok
       THEN /\ wdm_lock' = write_lock(lockfile)
            /\ lock_writes' = lock_writes + 1
            /\ exit_code' = 0
            /\ stdout' = "Updated lockfile"
            /\ UNCHANGED <<outcomes, faults>>
       ELSE /\ exit_code' = 1
            /\ stdout' = "Error"
            /\ faults' = faults + 1
            /\ outcomes' = Append(outcomes,
                 [name |-> <<>>, kind |-> "lock_io", fault |-> "lock_io",
                  ver |-> <<>>, fresh |-> NoHash, stored |-> NoHash,
                  was |-> <<>>, had_dir |-> FALSE, had_cache |-> NoBytes,
                  requested |-> FALSE])
            /\ UNCHANGED <<wdm_lock, lock_writes>>
  /\ runs' = push_run([lock |-> wdm_lock', outcomes |-> outcomes'])
  /\ UNCHANGED <<wdm_yml, plugins, cache, config, idx, lockfile, last_cmd,
                 cmds, remote_vars, q_vars>>

\* the process dies during the loop of Commands::Install, between two
\* dependencies
InstallKilled ==
  /\ pc = "install" /\ idx <= Len(config) /\ faults < MaxFaults
  /\ pc' = "idle"
  /\ exit_code' = 137
  /\ stdout' = "Killed"
  /\ faults' = faults + 1
  /\ runs' = <<>>
  /\ UNCHANGED <<fs_vars, config, idx, lockfile, last_cmd, outcomes,
                 lock_writes, cmds, remote_vars, q_vars>>

\* the process dies inside the fs::write of wdm.lock that ends
\* Commands::Install: the file was truncated and holds the first k entries,
\* and when torn a piece of what follows them
InstallKilledInWrite(k, torn) ==
  /\ pc = "install" /\ idx > Len(config) /\ faults < MaxFaults
  /\ k \in 0..Len(lockfile)
  /\ pc' = "idle"
  /\ wdm_lock' = torn_lock(lockfile, k, torn)
  /\ exit_code' = 137
  /\ stdout' = "Killed"
  /\ faults' = faults + 1
  /\ runs' = <<>>
  /\ UNCHANGED <<wdm_yml, plugins, cache, config, idx, lockfile, last_cmd,
                 outcomes, lock_writes, cmds, remote_vars, q_vars>>

\* ------------------------------------------------------------------------
\* The repository on GitHub changes between commands
\* ------------------------------------------------------------------------

\* a new tag is pushed
PublishTag(t) ==
  /\ pc = "idle" /\ t \in LaterTags \ remote_tags
  /\ remote_tags' = remote_tags \cup {t}
  /\ runs' = <<>>
  /\ UNCHANGED <<fs_vars, remote_rev, run_vars, last_cmd, outcomes,
                 lock_writes, exit_code, stdout, cmds, faults, q_vars>>

\* GitHub regenerates its archives: same files, other bytes
RegenerateArchive ==
  /\ pc = "idle" /\ remote_rev < MaxRev
  /\ remote_rev' = remote_rev + 1
  /\ runs' = <<>>
  /\ UNCHANGED <<fs_vars, remote_tags, run_vars, last_cmd, outcomes,
                 lock_writes, exit_code, stdout, cmds, faults, q_vars>>

\* ------------------------------------------------------------------------
\* Specification of the commands, run one after the other in an empty
\* directory
\* ------------------------------------------------------------------------

InitRest ==
  /\ wdm_lock = NoLock
  /\ plugins = [d \in Dirs |-> NoDir]
  /\ cache = [d \in Dirs |-> NoBytes]
  /\ remote_tags = InitialTags
  /\ remote_rev = 0
  /\ pc = "idle"
  /\ config = <<>>
  /\ idx = 1
  /\ lockfile = <<>>
  /\ last_cmd = Cmd("none", <<>>)
  /\ outcomes = <<>>
  /\ lock_writes = 0
  /\ exit_code = 0
  /\ stdout = ""
  /\ cmds = 0
  /\ faults = 0
  /\ runs = <<>>

Init ==
  /\ wdm_yml = NoManifest
  /\ InitRest
  /\ q_tags = <<>>
  /\ q_req = <<>>
  /\ q_out = Pending

Next ==
  \/ Init_cmd
  \/ \E a \in AddInputs, fault \in Faults \cup {"lock_io", "lock_torn"} :
        Add(a.name, a.version, a.repo, fault)
  \/ \E name \in InputNames : Remove(name)
  \/ InstallStart
  \/ \E fault \in Faults : InstallDep(fault)
  \/ \E io_ok \in BOOLEAN : InstallFinish(io_ok)
  \/ InstallKilled
  \/ \E k \in 0..Cardinality(Dirs), torn \in BOOLEAN : InstallKilledInWrite(k, torn)
  \/ \E op \in {"init", "add", "remove", "install"}, name \in InputNames :
        GitMissing(op, name)

Spec == Init /\ [][Next]_vars

\* ------------------------------------------------------------------------
\* Specification of install runs over a manifest written by hand, while
\* the repository changes
\* ------------------------------------------------------------------------

\* the dependencies a manifest is written with
ManifestDeps ==
  { [name |-> trim(a.name), version |-> trim(a.version),
     repo |-> trim(a.repo), token_env |-> NoToken] : a \in AddInputs }

\* manifests of one or two dependencies of different names
Manifests ==
  { <<d>> : d \in ManifestDeps }
    \cup { <<p[1], p[2]>> :
             p \in {x \in ManifestDeps \X ManifestDeps :
                      normalize(x[1].name) # normalize(x[2].name)} }

InitInstall ==
  /\ wdm_yml \in { write_yml(m) : m \in Manifests } \cup {BROKEN_YML}
  /\ InitRest
  /\ q_tags = <<>>
  /\ q_req = <<>>
  /\ q_out = Pending

NextInstall ==
  \/ InstallStart
  \/ \E fault \in Faults : InstallDep(fault)
  \/ \E io_ok \in BOOLEAN : InstallFinish(io_ok)
  \/ InstallKilled
  \/ \E k \in 0..Cardinality(Dirs), torn \in BOOLEAN : InstallKilledInWrite(k, torn)
  \/ \E t \in LaterTags : PublishTag(t)
  \/ RegenerateArchive
  \/ GitMissing("install", <<>>)

SpecInstall == InitInstall /\ [][NextInstall]_vars

\* ------------------------------------------------------------------------
\* Specification of resolver queries: a tag listing and a requirement are
\* drawn, resolve_github_version is applied
\* ------------------------------------------------------------------------

\* tag names a repository is drawn with: plain and v-prefixed versions, a
\* pre-release, a two-digit major, a tag with a word prefix, a peeled tag
QueryTags ==
  { <<"0", ".", "9", ".", "0">>,
    <<"1", ".", "0", ".", "0">>,
    <<"1", ".", "2", ".", "3">>,
    <<"2", ".", "0", ".", "0">>,
    <<"v", "1", ".", "2", ".", "3">>,
    <<"v", "2", ".", "0", ".", "0", "-", "r", "c", ".", "1">>,
    <<"v", "1", "0", ".", "0", ".", "0">>,
    <<"r", "e", "l", "e", "a", "s", "e", "-", "3", ".", "0", ".", "0">>,
    <<"v", "1", ".", "0", ".", "0", "^", "{", "}">> }

\* requirements a query is drawn with
QueryReqs ==
  { LATEST,
    <<"1", ".", "2", ".", "3">>,
    <<"3", ".", "0", ".", "0">>,
    <<"2", ".", "0", ".", "0", "-", "r", "c", ".", "1">>,
    <<"^", "1", ".", "0", ".", "0">>,
    <<"~", "1", ".", "2", ".", "0">>,
    <<">", "=", "2", ".", "0", ".", "0">>,
    <<">", "=", "2", ".", "0", ".", "0", "-", "r", "c", ".", "1">>,
    <<"<", "1", ".", "0", ".", "0">>,
    <<"^", "3", ".", "0", ".", "0">>,
    <<"1", ".", "2">>,
    <<"*">>,
    <<"a", "b", "c">> }

InitResolve ==
  /\ wdm_yml = NoManifest
  /\ InitRest
  /\ q_tags \in { SortedTags(S) :
                    S \in {T \in SUBSET QueryTags : Cardinality(T) <= MaxTags} }
  /\ q_req \in QueryReqs
  /\ q_out = Pending

\* resolve_github_version with git ls-remote succeeding
Resolve ==
  /\ q_out = Pending
  /\ q_out' = resolve_github_version(TRUE, q_tags, q_req)
  /\ UNCHANGED <<fs_vars, remote_vars, run_vars, last_cmd, outcomes,
                 lock_writes, exit_code, stdout, cmds, faults, runs, q_tags,
                 q_req>>

\* resolve_github_version with git ls-remote failing
ResolveGitFailure ==
  /\ q_out = Pending
  /\ q_out' = resolve_github_version(FALSE, q_tags, q_req)
  /\ UNCHANGED <<fs_vars, remote_vars, run_vars, last_cmd, outcomes,
                 lock_writes, exit_code, stdout, cmds, faults, runs, q_tags,
                 q_req>>

NextResolve == Resolve \/ ResolveGitFailure

SpecResolve == InitResolve /\ [][NextResolve]_vars

\* ------------------------------------------------------------------------
\* Properties of the resolver
\* ------------------------------------------------------------------------

\* the query has been answered from a tag listing
Resolved == q_out # Pending /\ q_out.err # "GitFailed"

\* the versions parsed from the tags of the query
Candidates == parse_tags(q_tags)

\* the version a result names
ResultVersion == ParseVersion(trim_start_matches(q_out.ver, "v")).v

IsCandidate(v) == \E i \in 1..Len(Candidates) : Candidates[i] = v

\* C6: when at least one tag parses as a semantic version, resolving
\* "latest" succeeds with a version that is greater than or equal to every
\* parsed candidate
C6_LatestIsHighest ==
  (Resolved /\ q_req = LATEST /\ Candidates # <<>>) =>
    /\ q_out.ok
    /\ q_out.ver = format_v(ResultVersion)
    /\ IsCandidate(ResultVersion)
    /\ \A i \in 1..Len(Candidates) :
         CmpVersion(ResultVersion, Candidates[i]) >= 0

\* "latest" resolved over candidates of which the first listed is not the
\* highest
C6_Witness ==
  /\ Resolved /\ q_req = LATEST /\ q_out.ok
  /\ Len(Candidates) >= 3
  /\ CmpVersion(Candidates[1], ResultVersion) < 0
  /\ CmpVersion(Candidates[Len(Candidates)], ResultVersion) < 0

ExactReq == ParseVersion(q_req)

\* C7 as stated: an exact requirement resolves to that version iff it is
\* among the parsed tags, and to VersionNotFound otherwise
C7_Original ==
  (Resolved /\ ExactReq.ok) =>
    IF IsCandidate(ExactReq.v)
      THEN q_out.ok /\ q_out.ver = format_v(ExactReq.v)
      ELSE ~q_out.ok /\ q_out.err = "VersionNotFound"

\* C7 amended: an exact requirement resolves to that version iff it is
\* among the parsed tags; when it is absent the result is a failure,
\* VersionNotFound when some tag parses and NoValidVersions when none does
C7_ExactIffPresent ==
  (Resolved /\ ExactReq.ok) =>
    IF IsCandidate(ExactReq.v)
      THEN q_out.ok /\ q_out.ver = format_v(ExactReq.v)
      ELSE /\ ~q_out.ok
           /\ q_out.err = IF Candidates = <<>> THEN "NoValidVersions"
                          ELSE "VersionNotFound"

\* an exact requirement that is absent while higher and lower versions
\* are listed
C7_Witness ==
  /\ Resolved /\ ExactReq.ok /\ ~IsCandidate(ExactReq.v)
  /\ q_out.err = "VersionNotFound"
  /\ \E i \in 1..Len(Candidates) : CmpVersion(Candidates[i], ExactReq.v) > 0
  /\ \E i \in 1..Len(Candidates) : CmpVersion(Candidates[i], ExactReq.v) < 0

RangeReq == ParseReq(q_req)

IsRange == q_req # LATEST /\ ~ExactReq.ok /\ RangeReq.ok

Satisfying(v) == IsCandidate(v) /\ req_matches(RangeReq.c, v)

EXAMPLE_TAGS ==
  << <<"0", ".", "9", ".", "0">>, <<"1", ".", "0", ".", "0">>,
     <<"1", ".", "2", ".", "3">>, <<"2", ".", "0", ".", "0">> >>

EXAMPLE_REQ == <<"^", "1", ".", "0", ".", "0">>

\* the scenario: tags [0.9.0, 1.0.0, 1.2.3, 2.0.0] and ^1.0.0 give 1.2.3
ExampleHolds ==
  (Resolved /\ q_tags = EXAMPLE_TAGS /\ q_req = EXAMPLE_REQ) =>
    q_out.ok /\ q_out.ver = <<"v", "1", ".", "2", ".", "3">>

\* C8 as stated: a range requirement resolves to the highest candidate that
\* satisfies it, and to NoMatchingVersion when no candidate does
C8_Original ==
  (Resolved /\ IsRange) =>
    /\ IF \E i \in 1..Len(Candidates) : Satisfying(Candidates[i])
         THEN /\ q_out.ok
              /\ q_out.ver = format_v(ResultVersion)
              /\ Satisfying(ResultVersion)
              /\ \A i \in 1..Len(Candidates) :
                   Satisfying(Candidates[i]) =>
                     CmpVersion(ResultVersion, Candidates[i]) >= 0
         ELSE ~q_out.ok /\ q_out.err = "NoMatchingVersion"
    /\ ExampleHolds

\* C8 amended: a range requirement resolves to the highest candidate that
\* satisfies it; when no candidate does the result is a failure,
\* NoMatchingVersion when some tag parses and NoValidVersions when none
\* does; the scenario resolves to 1.2.3
C8_RangeHighestMatch ==
  (Resolved /\ IsRange) =>
    /\ IF \E i \in 1..Len(Candidates) : Satisfying(Candidates[i])
         THEN /\ q_out.ok
              /\ q_out.ver = format_v(ResultVersion)
              /\ Satisfying(ResultVersion)
              /\ \A i \in 1..Len(Candidates) :
                   Satisfying(Candidates[i]) =>
                     CmpVersion(ResultVersion, Candidates[i]) >= 0
         ELSE /\ ~q_out.ok
              /\ q_out.err = IF Candidates = <<>> THEN "NoValidVersions"
                             ELSE "NoMatchingVersion"
    /\ ExampleHolds

\* tags [0.9.0, 1.0.0, 1.2.3, 2.0.0] with ^1.0.0 have been resolved to 1.2.3
C8_Witness ==
  /\ Resolved /\ q_tags = EXAMPLE_TAGS /\ q_req = EXAMPLE_REQ
  /\ q_out.ok /\ ResultVersion = [major |-> 1, minor |-> 2, patch |-> 3,
                                  pre |-> <<>>]

\* ------------------------------------------------------------------------
\* Properties of the commands
\* ------------------------------------------------------------------------

\* an install run has ended, normally or by an error
InstallEnded ==
  /\ last_cmd.op = "install" /\ pc = "idle"
  /\ stdout \notin {"wdm.yml does not exist", "Git is not installed"}

\* outcomes of the dependencies of the run (the failed lockfile write is
\* recorded as an outcome of its own)
DepOutcomes == SelectSeq(outcomes, LAMBDA o : o.kind # "lock_io")

HasEntry(deps, name) == \E i \in 1..Len(deps) : deps[i].name = name

\* the downloaded bytes do not have the hash the lock holds for the name
Mismatch(o) == o.stored # NoHash /\ o.fresh # NoHash /\ o.fresh # o.stored

\* C1: an install run in which the digest of the bytes downloaded for a
\* dependency differs from the hash of its lock entry stops at that
\* dependency with an error and writes no lockfile
C1_IntegrityAbort ==
  (last_cmd.op = "install"
     /\ \E i \in 1..Len(DepOutcomes) : Mismatch(DepOutcomes[i])) =>
    /\ pc = "idle"
    /\ exit_code # 0
    /\ lock_writes = 0
    /\ Mismatch(DepOutcomes[Len(DepOutcomes)])

NonIntegrityFailures == {"resolve_err", "download_err", "zip_err", "cache_io"}

\* C2: an install run in which a dependency fails for another reason than
\* integrity still processes every dependency of the manifest and writes
\* the lockfile at its end (unless that write itself fails)
C2_FailureIsolated ==
  (InstallEnded
     /\ \E i \in 1..Len(DepOutcomes) :
          DepOutcomes[i].kind \in NonIntegrityFailures) =>
    /\ Len(DepOutcomes) = Len(config)
    /\ lock_writes = 1 \/ outcomes[Len(outcomes)].kind = "lock_io"

\* C2 without the failing cache write: the failures the loop catches skip
\* one dependency only
C2_CaughtFailuresIsolated ==
  (/\ InstallEnded
   /\ \E i \in 1..Len(DepOutcomes) :
        DepOutcomes[i].kind \in NonIntegrityFailures
   /\ \A k \in 1..Len(DepOutcomes) : DepOutcomes[k].kind # "cache_io") =>
    /\ Len(DepOutcomes) = Len(config)
    /\ lock_writes = 1 \/ outcomes[Len(outcomes)].kind = "lock_io"

\* a dependency that was installed with a lock entry of another version
\* than the one its requirement resolves to now, and whose archive was
\* downloaded
VersionChanged(o) ==
  /\ o.had_dir /\ o.was # <<>> /\ o.ver # <<>> /\ o.ver # o.was
  /\ o.fresh # NoHash /\ o.fault = "none"

\* C3: after an install run that wrote the lockfile, every dependency that
\* was installed with another version than its requirement resolves to
\* has been reinstalled and its lock entry records the new version
C3_VersionChangeReinstalls ==
  (InstallEnded /\ lock_writes = 1) =>
    \A i \in 1..Len(DepOutcomes) :
      VersionChanged(DepOutcomes[i]) =>
        /\ DepOutcomes[i].kind = "installed"
        /\ stored_version(wdm_lock.deps, DepOutcomes[i].name)
             = DepOutcomes[i].ver
        /\ \A k \in 1..Len(wdm_lock.deps) :
             wdm_lock.deps[k].name = DepOutcomes[i].name =>
               wdm_lock.deps[k].version # DepOutcomes[i].was

\* the step is a remove command that passed the check for git, given the
\* name of a dependency of the manifest
RemovesPresent ==
  /\ cmds' = cmds + 1 /\ last_cmd'.op = "remove"
  /\ stdout' # "Git is not installed"
  /\ wdm_yml.exists /\ HasEntry(wdm_yml.deps, last_cmd'.name)

\* C4: remove of a dependency of the manifest leaves no dependency of that
\* name in the manifest, no entry of that name in the lockfile and no
\* install directory of that name
C4_RemoveCascades ==
  [][RemovesPresent =>
       /\ ~HasEntry(wdm_yml'.deps, last_cmd'.name)
       /\ ~HasEntry(wdm_lock'.deps, last_cmd'.name)
       /\ ~plugins'[last_cmd'.name].exists]_vars

\* the step is a remove command that passed the check for git, given a
\* name no dependency of the manifest has
RemovesAbsent ==
  /\ cmds' = cmds + 1 /\ last_cmd'.op = "remove"
  /\ stdout' # "Git is not installed"
  /\ wdm_yml.exists /\ ~HasEntry(wdm_yml.deps, last_cmd'.name)

\* C5: remove of a name that no dependency of the manifest has prints the
\* not-found message and leaves the manifest and the lockfile as they were
\* (the command being dispatched, i.e. git being installed)
C5_RemoveAbsent ==
  [][RemovesAbsent =>
       /\ stdout' = "not found"
       /\ wdm_yml' = wdm_yml
       /\ wdm_lock' = wdm_lock]_vars

\* a remove found nothing in a manifest that holds a dependency of the
\* same name in another case, with a lock entry on disk
C5_Witness ==
  /\ last_cmd.op = "remove" /\ stdout = "not found"
  /\ ~HasEntry(wdm_yml.deps, last_cmd.name)
  /\ \E i \in 1..Len(wdm_yml.deps) :
       normalize(wdm_yml.deps[i].name) = normalize(last_cmd.name)
  /\ wdm_lock.exists /\ wdm_lock.deps # <<>>

\* a run in which no network or file system fault occurred
Clean(run) == \A i \in 1..Len(run.outcomes) : run.outcomes[i].fault = "none"

\* C9: of two consecutive install runs without faults, between which
\* neither the manifest nor the repository changed, the second downloads
\* bytes of the same hash for every dependency and leaves the same
\* lockfile, entry by entry
C9_InstallTwiceSame ==
  (Len(runs) = 2 /\ Clean(runs[1]) /\ Clean(runs[2])) =>
    /\ runs[2].lock = runs[1].lock
    /\ Len(runs[2].outcomes) = Len(runs[1].outcomes)
    /\ \A i \in 1..Len(runs[1].outcomes) :
         runs[2].outcomes[i].fresh = runs[1].outcomes[i].fresh

LockSet(deps) == {deps[i] : i \in 1..Len(deps)}

\* C9 for the entries rather than their order
C9_SameEntries ==
  (Len(runs) = 2 /\ Clean(runs[1]) /\ Clean(runs[2])) =>
    /\ LockSet(runs[2].lock.deps) = LockSet(runs[1].lock.deps)
    /\ \A i \in 1..Len(runs[1].outcomes) :
         runs[2].outcomes[i].fresh = runs[1].outcomes[i].fresh

\* C10: between commands, the hash of every lock entry whose install
\* directory exists is the digest of the bytes that directory was
\* extracted from
C10_LockHashMatchesInstalled ==
  pc = "idle" =>
    \A i \in 1..Len(wdm_lock.deps) :
      plugins[wdm_lock.deps[i].name].exists =>
        wdm_lock.deps[i].hash = Sha256(plugins[wdm_lock.deps[i].name].src)

\* number of entries of the lockfile entries deps that have the name
EntriesOf(deps, name) ==
  Cardinality({i \in 1..Len(deps) : deps[i].name = name})

\* every dependency of the run was installed or found installed, and
\* nothing went wrong
NoDepFailed ==
  /\ InstallEnded /\ lock_writes = 1
  /\ \A i \in 1..Len(outcomes) :
       /\ outcomes[i].kind \in {"installed", "already_installed"}
       /\ outcomes[i].fault = "none"

\* C11: after an install run in which no dependency failed, the lockfile
\* has exactly one entry for each name of the manifest and no entry for a
\* name that is not in the manifest
C11_LockMatchesManifest ==
  NoDepFailed =>
    /\ \A i \in 1..Len(wdm_yml.deps) :
         EntriesOf(wdm_lock.deps, wdm_yml.deps[i].name) = 1
    /\ \A k \in 1..Len(wdm_lock.deps) :
         HasEntry(wdm_yml.deps, wdm_lock.deps[k].name)

\* the versions parsed from the tags the repository has
RemoteVersions == parse_tags(SortedTags(remote_tags))

\* C12: the version of every lock entry is an exact semantic version
\* without a tag prefix, and one of the versions parsed from the tags of
\* the repository
C12_LockVersionIsSemver ==
  \A i \in 1..Len(wdm_lock.deps) :
    /\ ParseVersion(wdm_lock.deps[i].version).ok
    /\ contains(RemoteVersions, ParseVersion(wdm_lock.deps[i].version).v)

\* C12 for the version behind the prefix: every lock entry holds "v"
\* followed by one of the versions parsed from the tags
C12_LockVersionIsPrefixedSemver ==
  \A i \in 1..Len(wdm_lock.deps) :
    \E k \in 1..Len(RemoteVersions) :
      wdm_lock.deps[i].version = format_v(RemoteVersions[k])

\* the step changes the lockfile on disk or counts a write of it
WritesLock == wdm_lock' # wdm_lock \/ lock_writes' # lock_writes

\* the step ends an install run without an error
InstallReturnsOk == pc = "install" /\ pc' = "idle" /\ exit_code' = 0

\* C13: while an install run processes its dependencies the lockfile is
\* not written; the run that reaches its end writes it exactly once, after
\* the last dependency, with the in-memory lock as it then is (unless the
\* process is killed inside that write)
C13_OneLockWriteAtEnd ==
  [][/\ (pc = "install" /\ WritesLock) =>
          /\ idx > Len(config) /\ Len(outcomes) = Len(config)
          /\ pc' = "idle"
          /\ lock_writes = 0
          /\ stdout' # "Killed" =>
                lock_writes' = 1 /\ wdm_lock' = write_lock(lockfile)
     /\ InstallReturnsOk =>
          /\ lock_writes' = 1
          /\ wdm_lock' = write_lock(lockfile)
          /\ Len(outcomes') = Len(config)]_vars

\* an install run over two dependencies has installed both and written a
\* lockfile that differs from the one it started with
C13_Witness ==
  /\ InstallEnded /\ exit_code = 0 /\ lock_writes = 1
  /\ Len(config) = 2 /\ Len(outcomes) = 2
  /\ \A i \in 1..2 : outcomes[i].kind = "installed"
  /\ Len(wdm_lock.deps) = 2 /\ wdm_lock.deps = lockfile

\* the step leaves in wdm.lock the complete lockfile of an add: the
\* entries the file had, without that of the added name, and the new entry
CompleteAddLock ==
  /\ ~wdm_lock'.torn /\ wdm_lock'.deps # <<>>
  /\ wdm_lock'.deps =
       lock_update(read_lock(wdm_lock), wdm_lock'.deps[Len(wdm_lock'.deps)])
  /\ wdm_lock'.deps[Len(wdm_lock'.deps)].name = trim(last_cmd'.name)

\* C14: whatever happens during a command, the process being killed
\* included, a step leaves wdm.lock as it was or holding the complete new
\* lockfile
C14_LockWriteAtomic ==
  [][wdm_lock' # wdm_lock =>
       IF pc = "install" THEN wdm_lock' = write_lock(lockfile)
       ELSE last_cmd'.op = "add" /\ CompleteAddLock]_vars

\* no two dependencies have names that are equal without regard to case
UniqueNames(deps) ==
  \A i, j \in 1..Len(deps) :
    i # j => normalize(deps[i].name) # normalize(deps[j].name)

\* number of dependencies that have the name, compared without regard to
\* case
SameNameCount(deps, name) ==
  Cardinality({i \in 1..Len(deps) : normalize(deps[i].name) = normalize(name)})

\* the step is an add command that was dispatched
AddStep ==
  /\ cmds' = cmds + 1 /\ last_cmd'.op = "add"
  /\ stdout' # "Git is not installed"

\* C15: starting without a manifest, every add and remove leaves a manifest
\* in which no two names are equal without regard to case; add of a name
\* the manifest has leaves one dependency of that name and as many
\* dependencies as before
C15_NamesUnique ==
  [][/\ UniqueNames(wdm_yml'.deps)
     /\ AddStep =>
          /\ SameNameCount(wdm_yml'.deps, last_cmd'.name) = 1
          /\ Len(wdm_yml'.deps) =
               IF SameNameCount(wdm_yml.deps, last_cmd'.name) > 0
                 THEN Len(wdm_yml.deps) ELSE Len(wdm_yml.deps) + 1]_vars

\* add of A has replaced the dependency a, which was installed before, in a
\* manifest that holds b as well
C15_Witness ==
  /\ last_cmd = Cmd("add", NAME_A) /\ stdout # "Git is not installed"
  /\ Len(wdm_yml.deps) = 2
  /\ HasEntry(wdm_yml.deps, NAME_A) /\ HasEntry(wdm_yml.deps, NAME_b)
  /\ HasEntry(wdm_lock.deps, NAME_a)

Last(seq) == seq[Len(seq)]

\* the step is an add command that repeats the command before it: the same
\* name, and the same dependency pushed to the manifest
RepeatsAdd ==
  /\ AddStep
  /\ last_cmd.op = "add" /\ stdout # "Git is not installed"
  /\ last_cmd'.name = last_cmd.name
  /\ wdm_yml.deps # <<>> /\ wdm_yml'.deps # <<>>
  /\ Last(wdm_yml'.deps) = Last(wdm_yml.deps)

\* C16: an add command that repeats the add command before it leaves the
\* manifest as that one left it
C16_AddIdempotent == [][RepeatsAdd => wdm_yml' = wdm_yml]_vars

\* an add has been repeated on a manifest of two dependencies: it found the
\* dependency installed at the version it resolved
C16_Witness ==
  /\ last_cmd.op = "add" /\ cmds = MaxCmds
  /\ Len(wdm_yml.deps) = 2
  /\ Len(outcomes) = 1
  /\ outcomes[1].kind = "already_installed"
  /\ outcomes[1].was = outcomes[1].ver
  /\ Last(wdm_yml.deps).name = outcomes[1].name

\* the dependency of the outcome was extracted and nothing went wrong
Extracted(o) == o.kind = "installed" /\ o.fault = "none"

\* the files of the archive of version ver, each at its path below the
\* root folder
FilesBelowRoot(ver) ==
  { [path |-> Tail(e.name), complete |-> TRUE] :
      e \in { x \in {zip_entries([tag |-> ver, rev |-> 0, zip |-> TRUE])[i] :
                       i \in 1..2} : ~x.dir } }

\* C17: whatever the root folder of the archive is called, every file of
\* the archive is written below the install directory at its path without
\* the root folder, no installed path holds the name of the root folder,
\* and the entry of the root folder itself gives no file
C17_ExtractionRootInvariant ==
  \A i \in 1..Len(outcomes) :
    Extracted(outcomes[i]) =>
      /\ plugins[outcomes[i].name].exists
      /\ plugins[outcomes[i].name].files = FilesBelowRoot(outcomes[i].ver)
      /\ \A f \in plugins[outcomes[i].name].files :
           /\ f.path # <<>>
           /\ \A k \in 1..Len(f.path) :
                f.path[k] # archive_root(outcomes[i].ver)

\* C17 for archives whose root folder has the name computed from the
\* repository string and the version
C17_ExpectedRootStripped ==
  \A i \in 1..Len(outcomes) :
    (/\ Extracted(outcomes[i])
     /\ \E d \in 1..Len(wdm_yml.deps) :
          /\ wdm_yml.deps[d].name = outcomes[i].name
          /\ zip_prefix(wdm_yml.deps[d].repo, outcomes[i].ver)
               = archive_root(outcomes[i].ver)) =>
      /\ plugins[outcomes[i].name].exists
      /\ plugins[outcomes[i].name].files = FilesBelowRoot(outcomes[i].ver)

\* before the dependency was processed the cache held the archive of the
\* version that was resolved for it
CacheHit(o) ==
  o.ver # <<>> /\ o.had_cache # NoBytes /\ o.had_cache.tag = o.ver

\* C18: install requests no download for a dependency whose archive of the
\* resolved version is in the cache; it requests one only when it is not
C18_CacheHitNoDownload ==
  last_cmd.op = "install" =>
    \A i \in 1..Len(DepOutcomes) :
      DepOutcomes[i].requested => ~CacheHit(DepOutcomes[i])

\* what the code does instead: a download is requested for every
\* dependency whose version resolves, whatever the cache holds
C18_AlwaysDownloads ==
  \A i \in 1..Len(DepOutcomes) :
    DepOutcomes[i].requested <=> DepOutcomes[i].kind # "resolve_err"

\* the step is an install or remove command that was dispatched and found
\* no wdm.yml
MissingManifest ==
  /\ cmds' = cmds + 1 /\ last_cmd'.op \in {"install", "remove"}
  /\ stdout' # "Git is not installed"
  /\ ~wdm_yml.exists

\* C19: install and remove without a manifest exit with a non-zero status
\* and change neither the lockfile nor the cache nor the installed files
C19_MissingManifestFails ==
  [][MissingManifest =>
       /\ exit_code' # 0
       /\ UNCHANGED <<wdm_lock, cache, plugins>>]_vars

\* C19 without the exit status: install and remove without a manifest
\* print that it is missing and change nothing on disk
C19_MissingManifestNoChange ==
  [][MissingManifest =>
       /\ stdout' = "wdm.yml does not exist"
       /\ UNCHANGED <<wdm_yml, wdm_lock, cache, plugins>>]_vars

\* the step is an init command that was dispatched
InitStep ==
  /\ cmds' = cmds + 1 /\ last_cmd'.op = "init"
  /\ stdout' # "Git is not installed"

\* C20: init without a manifest creates one without dependencies; init
\* with a manifest fails, with a non-zero exit status, and leaves the
\* manifest as it is
C20_InitCreatesOrFails ==
  [][InitStep =>
       IF wdm_yml.exists
         THEN exit_code' # 0 /\ wdm_yml' = wdm_yml
         ELSE wdm_yml' = write_yml(<<>>)]_vars

\* C20 without the failure: init with a manifest prints that it exists,
\* exits with status 0 and leaves the manifest as it is
C20_InitCreatesOrKeeps ==
  [][InitStep =>
       IF wdm_yml.exists
         THEN /\ stdout' = "wdm.yml already exists"
              /\ exit_code' = 0
              /\ wdm_yml' = wdm_yml
         ELSE /\ wdm_yml' = write_yml(<<>>)
              /\ stdout' = "Initialized wdm.yml"]_vars

\* ------------------------------------------------------------------------
\* C21: parse failures of wdm.yml and wdm.lock
\* ------------------------------------------------------------------------

\* a step that dispatches Commands::Install on a manifest or a lockfile
\* that does not parse
InstallOnUnparsable ==
  /\ pc = "idle" /\ cmds' = cmds + 1
  /\ last_cmd'.op = "install" /\ stdout' # "Git is not installed"
  /\ wdm_yml = BROKEN_YML \/ (wdm_yml.exists /\ wdm_lock.torn)

\* C21: when wdm.yml or wdm.lock does not parse, install ends with an
\* error before the loop over the dependencies: nothing is resolved,
\* downloaded or extracted (no outcome, plugin directories and cache
\* untouched) and wdm.lock is not written
C21_ParseFailureAborts ==
  [][InstallOnUnparsable =>
       /\ pc' = "idle"
       /\ exit_code' # 0
       /\ outcomes' = <<>>
       /\ lock_writes' = 0
       /\ UNCHANGED <<wdm_yml, wdm_lock, plugins, cache>>]_vars

\* install was run on a manifest that does not parse, and, in another
\* behaviour, on a lockfile that does not parse
C21_Witness ==
  /\ pc = "idle" /\ last_cmd.op = "install" /\ stdout = "Error"
  /\ exit_code = 1 /\ outcomes = <<>>
  /\ wdm_yml = BROKEN_YML

C21_WitnessLock ==
  /\ pc = "idle" /\ last_cmd.op = "install" /\ stdout = "Error"
  /\ exit_code = 1 /\ outcomes = <<>>
  /\ wdm_yml.exists /\ wdm_yml # BROKEN_YML /\ wdm_lock.torn

\* ------------------------------------------------------------------------
\* C22: the candidates of the resolver
\* ------------------------------------------------------------------------

RECURSIVE strip_leading_non_digits(_)
\* a tag without the characters that precede its first digit
strip_leading_non_digits(tag) ==
  IF tag # <<>> /\ Head(tag) \notin Digits
    THEN strip_leading_non_digits(Tail(tag)) ELSE tag

RECURSIVE stripped_candidates(_)
\* the candidates of a tag listing when every leading non-digit character
\* is stripped before the parse
stripped_candidates(lines) ==
  IF lines = <<>> THEN <<>>
  ELSE LET tag == trim_end_matches(Head(lines), PEEL)
           ver == ParseVersion(strip_leading_non_digits(tag))
       IN (IF ver.ok THEN <<ver.v>> ELSE <<>>)
            \o stripped_candidates(Tail(lines))

\* a tag whose version is preceded by something else than v's
WordPrefixed(tag) ==
  /\ ParseVersion(strip_leading_non_digits(tag)).ok
  /\ ~ParseVersion(trim_start_matches(tag, "v")).ok

\* C22: the candidates the resolver selects from are the versions parsed
\* from the tags after stripping every leading non-digit character, so
\* that release-3.0.0 is a candidate like v3.0.0 and 3.0.0: "latest"
\* succeeds whenever some tag parses after the stripping, and with the
\* highest of these versions
C22_CandidatesStripNonDigits ==
  Resolved =>
    /\ Candidates = stripped_candidates(q_tags)
    /\ (q_req = LATEST /\ stripped_candidates(q_tags) # <<>>) =>
         /\ q_out.ok
         /\ q_out.ver = format_v(sort_desc(stripped_candidates(q_tags))[1])

\* C22, as the code has it: only leading v's are stripped, a tag whose
\* version follows another prefix is discarded, and a listing of such tags
\* alone has no valid version
C22_CandidatesStripV ==
  Resolved =>
    /\ Len(Candidates) =
         Cardinality({i \in 1..Len(q_tags) :
                        ParseVersion(trim_start_matches(
                          trim_end_matches(q_tags[i], PEEL), "v")).ok})
    /\ (\A i \in 1..Len(q_tags) : WordPrefixed(q_tags[i])) =>
         ~q_out.ok /\ q_out.err = "NoValidVersions"

\* "latest" was resolved over a listing that has release-3.0.0 and a lower
\* v-prefixed version
C22_Witness ==
  /\ Resolved /\ q_req = LATEST /\ q_out.ok
  /\ \E i \in 1..Len(q_tags) : WordPrefixed(q_tags[i])
  /\ \E i \in 1..Len(q_tags) : ~WordPrefixed(q_tags[i])

\* ------------------------------------------------------------------------
\* C23: file system failures during extraction
\* ------------------------------------------------------------------------

\* the lock entries of a name
EntriesNamed(deps, name) == SelectSeq(deps, LAMBDA d : d.name = name)

\* a step of the install loop in which create_dir_all, File::create or
\* io::copy failed while the archive of the dependency was extracted (the
\* root folder of the archive is the expected one, so that the entries
\* reach these calls)
ExtractionFails ==
  /\ pc = "install" /\ idx <= Len(config)
  /\ Len(outcomes') = Len(outcomes) + 1
  /\ Last(outcomes').kind = "installed"
  /\ Last(outcomes').fault \in {"mkdir", "create", "copy"}
  /\ zip_prefix(config[idx].repo, Last(outcomes').ver)
       = archive_root(Last(outcomes').ver)

\* C23: when creating a directory or writing a file fails during the
\* extraction of a dependency, no lock entry is written or replaced for
\* that dependency (the in-memory lockfile, which is what the run writes
\* at its end, keeps the entries of that name as they were), and the loop
\* goes on with the next dependency
C23_ExtractionFailureAborts ==
  [][ExtractionFails =>
       /\ EntriesNamed(lockfile', config[idx].name)
            = EntriesNamed(lockfile, config[idx].name)
       /\ pc' = "install" /\ idx' = idx + 1]_vars

\* C23, as the code has it: the failure is printed and the loop over the
\* entries continues; the dependency gets its lock entry, with the digest
\* of the download, as if it had been installed, and the loop goes on
\* with the next dependency
C23_ExtractionFailureStillLocks ==
  [][ExtractionFails =>
       /\ lockfile' = lock_update(lockfile,
            [name |-> config[idx].name, version |-> Last(outcomes').ver,
             repo |-> config[idx].repo, hash |-> Last(outcomes').fresh])
       /\ \A f \in plugins'[config[idx].name].files : ~f.complete
       /\ pc' = "install" /\ idx' = idx + 1]_vars

\* an install run ended with a lock entry for a dependency whose
\* extraction failed, after processing the dependency that follows it
C23_Witness ==
  /\ pc = "idle" /\ last_cmd.op = "install" /\ stdout = "Updated lockfile"
  /\ Len(outcomes) = 2
  /\ outcomes[1].kind = "installed"
  /\ outcomes[1].fault \in {"mkdir", "create", "copy"}
  /\ outcomes[2].kind = "installed"
  /\ HasEntry(wdm_lock.deps, outcomes[1].name)
  /\ \A f \in plugins[outcomes[1].name].files : ~f.complete

\* ------------------------------------------------------------------------
\* C24: what an install run leaves alone in the lockfile
\* ------------------------------------------------------------------------

SkipKinds == {"resolve_err", "download_err", "zip_err", "already_installed"}

\* the lock entries of the other names, in their order
OtherEntries(deps, name) == SelectSeq(deps, LAMBDA d : d.name # name)

\* a step of the install loop
LoopStep ==
  /\ pc = "install" /\ idx <= Len(config)
  /\ Len(outcomes') = Len(outcomes) + 1

AddSkipsInstall ==
  /\ AddStep
  /\ Len(outcomes') = 1
  /\ outcomes'[1].kind \in SkipKinds

\* C25: an add command whose installation is given up has written the
\* manifest all the same, with the dependency, trimmed, as its last
\* entry; wdm.lock is left as it was and the command exits with status 0
C25_AddKeepsManifestOnFailure ==
  [][AddSkipsInstall =>
       /\ wdm_yml'.exists
       /\ wdm_yml'.deps # <<>>
       /\ Last(wdm_yml'.deps).name = trim(last_cmd'.name)
       /\ Last(wdm_yml'.deps).name = outcomes'[1].name
       /\ wdm_lock' = wdm_lock
       /\ lock_writes' = 0
       /\ exit_code' = 0]_vars

\* the four cases: an add has left a new dependency in the manifest and no
\* entry of it in the lockfile after a failed resolution
C25_Witness ==
  /\ last_cmd.op = "add" /\ Len(outcomes) = 1
  /\ outcomes[1].kind = "resolve_err"
  /\ HasEntry(wdm_yml.deps, outcomes[1].name)
  /\ ~HasEntry(wdm_lock.deps, outcomes[1].name)
  /\ exit_code = 0

\* after a failed download
C25_WitnessDownload ==
  /\ last_cmd.op = "add" /\ Len(outcomes) = 1
  /\ outcomes[1].kind = "download_err"
  /\ HasEntry(wdm_yml.deps, outcomes[1].name)
  /\ ~HasEntry(wdm_lock.deps, outcomes[1].name)

\* after the download of something that is not a zip archive
C25_WitnessArchive ==
  /\ last_cmd.op = "add" /\ Len(outcomes) = 1
  /\ outcomes[1].kind = "zip_err"
  /\ HasEntry(wdm_yml.deps, outcomes[1].name)
  /\ ~HasEntry(wdm_lock.deps, outcomes[1].name)

\* with the install directory present, the lock entry being of another
\* version than the one the manifest now asks for
C25_WitnessInstalled ==
  /\ last_cmd.op = "add" /\ Len(outcomes) = 1
  /\ outcomes[1].kind = "already_installed"
  /\ HasEntry(wdm_yml.deps, outcomes[1].name)
  /\ outcomes[1].was # <<>> /\ outcomes[1].was # outcomes[1].ver

\* ------------------------------------------------------------------------
\* C26: how remove and add compare names
\* ------------------------------------------------------------------------

\* the step is a remove command that was dispatched on a manifest
RemoveStep ==
  /\ cmds' = cmds + 1 /\ last_cmd'.op = "remove"
  /\ stdout' # "Git is not installed"
  /\ wdm_yml.exists

\* the manifest has a dependency whose name differs from name, but not
\* after trimming and lower-casing
HasOtherSpelling(deps, name) ==
  /\ ~HasEntry(deps, name)
  /\ \E i \in 1..Len(deps) : normalize(deps[i].name) = normalize(name)

\* C26: remove drops the dependencies whose name equals its argument
\* character by character, and no other: on a manifest that has the name
\* in another spelling only (Foo for foo) it reports that the dependency
\* is not found and leaves the manifest as it is.  add drops the
\* dependencies whose name equals its argument after trimming and
\* lower-casing: on such a manifest it replaces the dependency of the
\* other spelling by the new one
C26_RemoveExactAddNormalized ==
  [][/\ RemoveStep =>
          /\ \A i \in 1..Len(wdm_yml.deps) :
               wdm_yml.deps[i].name # last_cmd'.name =>
                 \E j \in 1..Len(wdm_yml'.deps) :
                   wdm_yml'.deps[j] = wdm_yml.deps[i]
          /\ ~HasEntry(wdm_yml'.deps, last_cmd'.name)
          /\ HasOtherSpelling(wdm_yml.deps, last_cmd'.name) =>
               stdout' = "not found" /\ wdm_yml' = wdm_yml
     /\ (AddStep /\ HasOtherSpelling(wdm_yml.deps, trim(last_cmd'.name))) =>
          /\ Len(wdm_yml'.deps) = Len(wdm_yml.deps)
          /\ HasEntry(wdm_yml'.deps, trim(last_cmd'.name))
          /\ \A i \in 1..Len(wdm_yml.deps) :
               normalize(wdm_yml.deps[i].name) = normalize(last_cmd'.name) =>
                 ~HasEntry(wdm_yml'.deps, wdm_yml.deps[i].name)]_vars

\* remove a has not found the dependency A, which add had put into the
\* manifest and installed
C26_Witness ==
  /\ last_cmd = Cmd("remove", NAME_a) /\ stdout = "not found"
  /\ HasEntry(wdm_yml.deps, NAME_A)
  /\ HasEntry(wdm_lock.deps, NAME_A)

\* add a has replaced the dependency A
C26_WitnessAdd ==
  /\ last_cmd = Cmd("add", NAME_a) /\ stdout # "Git is not installed"
  /\ HasEntry(wdm_yml.deps, NAME_a) /\ ~HasEntry(wdm_yml.deps, NAME_A)
  /\ HasEntry(wdm_lock.deps, NAME_A)

\* ------------------------------------------------------------------------
\* C27: the place of a dependency that add updates
\* ------------------------------------------------------------------------

\* the dependencies whose name differs from name after trimming and
\* lower-casing, in their order
OtherDeps(deps, name) ==
  SelectSeq(deps, LAMBDA d : normalize(d.name) # normalize(name))

\* the step is an add command for a name the manifest has
AddExisting ==
  /\ AddStep
  /\ wdm_yml.exists
  /\ OtherDeps(wdm_yml.deps, last_cmd'.name) # wdm_yml.deps

\* the dependencies an install run has processed so far are the first
\* ones of the manifest, in the order of the manifest
ProcessedInManifestOrder ==
  (last_cmd.op = "install" /\ stdout # "Git is not installed") =>
    /\ Len(DepOutcomes) <= Len(wdm_yml.deps)
    /\ \A i \in 1..Len(DepOutcomes) :
         DepOutcomes[i].name = wdm_yml.deps[i].name

\* C27: add of a name the manifest has leaves the new dependency as the
\* last one of the manifest, after the other dependencies, which keep
\* their fields and their order; install processes the dependencies in
\* the order of the manifest, so that this dependency comes last
C27_UpdatedDependencyLast ==
  [][/\ AddExisting =>
          /\ Len(wdm_yml'.deps) = Len(OtherDeps(wdm_yml.deps, last_cmd'.name)) + 1
          /\ Last(wdm_yml'.deps).name = trim(last_cmd'.name)
          /\ SubSeq(wdm_yml'.deps, 1, Len(wdm_yml'.deps) - 1)
               = OtherDeps(wdm_yml.deps, last_cmd'.name)
     /\ ProcessedInManifestOrder']_vars

\* add A has updated the dependency a, the first of a manifest of two: A
\* is now the second, after b
C27_Witness ==
  /\ last_cmd = Cmd("add", NAME_A) /\ stdout # "Git is not installed"
  /\ Len(wdm_yml.deps) = 2
  /\ wdm_yml.deps[1].name = NAME_b
  /\ wdm_yml.deps[2].name = NAME_A
  /\ plugins[NAME_a].exists

\* an install run has processed a manifest of two dependencies
C27_WitnessInstall ==
  /\ last_cmd.op = "install" /\ stdout = "Updated lockfile"
  /\ Len(wdm_yml.deps) = 2 /\ Len(DepOutcomes) = 2

====
